---- MODULE Spec2Model ----
\* Train -> Persist -> Infer pipeline of the unemployment-analysis repository:
\* train_model.py (training script, bundle writer) and app.py (bundle loader,
\* prediction tab of the Streamlit dashboard).
EXTENDS Integers, Sequences, FiniteSets, TLC

\* ---------------------------------------------------------------- bounds
\* Rows of the survey CSV a training run reads (SpecTrain).
MaxRows == 2
\* Runs of the training script within one behaviour (Spec).
MaxRuns == 2
\* Script reruns of one dashboard session (Spec).
MaxReruns == 2

\* ------------------------------------------------------------------ text
\* A text value is a sequence of tokens; SP is a whitespace token, every other
\* token is a run of non-blank characters (possibly with inner blanks).
SP == " "
\* A missing cell of the data frame (numpy.nan in an object column).
NaN == <<"<NA>">>
\* A missing cell of a numeric column produced by Series.map.
NumNaN == <<>>

RECURSIVE LStrip(_)
LStrip(s) == IF s # <<>> /\ Head(s) = SP THEN LStrip(Tail(s)) ELSE s

RECURSIVE RStrip(_)
RStrip(s) ==
    IF s # <<>> /\ s[Len(s)] = SP THEN RStrip(SubSeq(s, 1, Len(s) - 1)) ELSE s

\* str.strip(): leading and trailing whitespace removed, inner kept.
Strip(s) == RStrip(LStrip(s))

\* Series.astype(str): a missing cell becomes the text "nan".
AsStr(c) == IF c = NaN THEN <<"nan">> ELSE c

\* Code-point order of the tokens that occur in categorical columns
\* (blank < upper case < lower case).
Alphabet ==
    <<SP, "Active", "Female", "Male", "No", "Other", "Passive", "Yes", "nan">>

TokRank(t) == CHOOSE i \in 1..Len(Alphabet) : Alphabet[i] = t

RECURSIVE LexLess(_, _)
LexLess(a, b) ==
    IF a = <<>> THEN b # <<>>
    ELSE IF b = <<>> THEN FALSE
    ELSE IF Head(a) = Head(b) THEN LexLess(Tail(a), Tail(b))
    ELSE TokRank(Head(a)) < TokRank(Head(b))

RECURSIVE SortSet(_)
SortSet(S) ==
    IF S = {} THEN <<>>
    ELSE LET m == CHOOSE x \in S : \A y \in S \ {x} : LexLess(x, y)
         IN  <<m>> \o SortSet(S \ {m})

Range(f) == {f[i] : i \in DOMAIN f}

IndexOf(seq, v) == CHOOSE i \in DOMAIN seq : seq[i] = v

\* ------------------------------------------------- static maps and columns
age_map == (<<"18-24">> :> 1) @@ (<<"25-34">> :> 2)
edu_map == (<<"School level">> :> 1) @@ (<<"Undergraduate">> :> 2)
             @@ (<<"Postgraduate">> :> 3)
emp_map == (<<"Student">> :> 1) @@ (<<"Employed">> :> 2) @@ (<<"Unemployed">> :> 3)
severity_map == (<<"Yes">> :> 5) @@ (<<"Maybe">> :> 3) @@ (<<"No">> :> 1)

\* Key order of the dict literals (what list(d.keys()) returns).
age_keys == << <<"18-24">>, <<"25-34">> >>
edu_keys == << <<"School level">>, <<"Undergraduate">>, <<"Postgraduate">> >>
emp_keys == << <<"Student">>, <<"Employed">>, <<"Unemployed">> >>

categorical_cols == <<"gender", "skill_alignment", "skill_training", "job_seeking_status">>

features == <<"age_numeric", "edu_numeric", "emp_numeric", "gender",
              "skill_alignment", "skill_training", "job_seeking_status">>

\* ------------------------------------------------------ pandas / sklearn
\* DataFrame.dropna(how='all'): rows whose every cell is missing are removed.
RECURSIVE DropNaAll(_)
DropNaAll(rows) ==
    IF rows = <<>> THEN <<>>
    ELSE LET r == Head(rows)
         IN  IF \A c \in DOMAIN r : r[c] = NaN
             THEN DropNaAll(Tail(rows))
             ELSE <<r>> \o DropNaAll(Tail(rows))

\* Series.map(dict): the dict's value, or a missing number for any other cell.
SeriesMap(m, cell) == IF cell \in DOMAIN m THEN <<m[cell]>> ELSE NumNaN

\* Series.fillna(d).
FillNa(v, d) == IF v = NumNaN THEN d ELSE v[1]

\* df[col].map(m).fillna(d) for one cell.
MapOrdinal(m, cell, d) == FillNa(SeriesMap(m, cell), d)

\* df[col].astype(str).str.strip() for one cell.
CleanCategorical(cell) == Strip(AsStr(cell))

\* LabelEncoder.fit: classes_ is the sorted sequence of distinct values.
LeFit(values) == SortSet(Range(values))

\* Mutant of LeTransform: an unseen label silently takes code 0.
LeTransformDefault(classes, v) ==
    IF v \in Range(classes)
    THEN [err |-> "none", val |-> IndexOf(classes, v) - 1]
    ELSE [err |-> "none", val |-> 0]

\* LabelEncoder.transform([v])[0]: the zero-based position of v in classes_;
\* a value outside classes_ raises ValueError.
LeTransform(classes, v) ==
    IF v \in Range(classes)
    THEN [err |-> "none", val |-> IndexOf(classes, v) - 1]
    ELSE [err |-> "ValueError", val |-> 0]

\* Python dict subscript d[k]: KeyError for an absent key.
DictGet(m, k) ==
    IF k \in DOMAIN m THEN [err |-> "none", val |-> m[k]]
    ELSE [err |-> "KeyError", val |-> 0]

RECURSIVE SumOver(_, _)
SumOver(y, S) ==
    IF S = {} THEN 0
    ELSE LET i == CHOOSE j \in S : TRUE IN y[i] + SumOver(y, S \ {i})

\* RandomForestRegressor.fit(X, y): the fitted forest is a function of the
\* training table (random_state is fixed).
ModelFit(X, y) == [fitted |-> TRUE, X |-> X, y |-> y]

NoModel == [fitted |-> FALSE, X |-> <<>>, y |-> <<>>]

\* model.predict([x])[0]: every tree answers with the mean target of the
\* training rows in the leaf x falls into, the forest with the mean over its
\* trees. The leaf of a fully grown tree holds the rows whose features equal x
\* when there are any. The score is the rational num / den.
ModelPredict(m, x) ==
    LET same == {i \in DOMAIN m.X : m.X[i] = x}
        leaf == IF same # {} THEN same ELSE DOMAIN m.X
    IN  [num |-> SumOver(m.y, leaf), den |-> Cardinality(leaf)]

\* ------------------------------------------------------- training pipeline
ordinal_cols == <<"age_group", "education_level", "employment_status">>

\* Lines 22-24: the three ordinal columns, defaults 1, 2 and 1.
WithOrdinals(d) ==
    [i \in DOMAIN d |->
        d[i] @@ [age_numeric |-> MapOrdinal(age_map, d[i].age_group, 1),
                 edu_numeric |-> MapOrdinal(edu_map, d[i].education_level, 2),
                 emp_numeric |-> MapOrdinal(emp_map, d[i].employment_status, 1)]]

\* Line 28: the target score, default 3.
WithTarget(d) ==
    [i \in DOMAIN d |->
        d[i] @@ [target_score |->
                    MapOrdinal(severity_map, d[i].issue_severity_perception, 3)]]

\* Lines 33-37, the fit half of fit_transform: one encoder per categorical
\* column, fitted on the stringified and stripped column.
FitEncoders(d) ==
    [c \in Range(categorical_cols) |->
        LeFit([i \in DOMAIN d |-> CleanCategorical(d[i][c])])]

\* Lines 33-37, the transform half: each categorical column replaced in place
\* by its codes.
EncodeColumns(d, enc) ==
    [i \in DOMAIN d |->
        [c \in DOMAIN d[i] |->
            IF c \in Range(categorical_cols)
            THEN LeTransform(enc[c], CleanCategorical(d[i][c])).val
            ELSE d[i][c]]]

\* Line 41: X = df[features], one vector per row, in the order of features.
FeatureTable(d) ==
    [i \in DOMAIN d |-> [k \in 1..Len(features) |-> d[i][features[k]]]]

\* Line 42: y = df['target_score'].
Targets(d) == [i \in DOMAIN d |-> d[i].target_score]

\* ----------------------------------------------------------- asset bundle
\* What load_assets returns when it has no bundle.
None == [kind |-> "None"]

\* Lines 49-56: the dict that is pickled.
MakeBundle(m, enc) ==
    [kind |-> "bundle", model |-> m, encoders |-> enc, age_map |-> age_map,
     edu_map |-> edu_map, emp_map |-> emp_map, feature_names |-> features]

\* pickle.dump: the byte stream, cut where the buffered writer flushes. The
\* stream's STOP opcode is in the last chunk.
Pickle(b) ==
    << [key |-> "model", val |-> b.model],
       [key |-> "encoders", val |-> b.encoders],
       [key |-> "maps+names+STOP",
        val |-> <<b.age_map, b.edu_map, b.emp_map, b.feature_names>>] >>

PickleLen == Len(Pickle(MakeBundle(NoModel, <<>>)))

\* pickle.load of a stream read to its STOP opcode.
Unpickle(chunks) ==
    [kind |-> "bundle", model |-> chunks[1].val, encoders |-> chunks[2].val,
     age_map |-> chunks[3].val[1], edu_map |-> chunks[3].val[2],
     emp_map |-> chunks[3].val[3], feature_names |-> chunks[3].val[4]]

\* The whole training script as a function of the parsed CSV rows.
TrainBundle(rows) ==
    LET d0  == WithTarget(WithOrdinals(DropNaAll(rows)))
        enc == FitEncoders(d0)
        d1  == EncodeColumns(d0, enc)
    IN  MakeBundle(ModelFit(FeatureTable(d1), Targets(d1)), enc)

\* ---------------------------------------------------------------- inference
\* Python truthiness of `assets` (line 104): None is false, the dict is true.
Truthy(a) == a.kind = "bundle"

\* Mutant of AssembleX: the gender and skill_alignment entries change places.
AssembleXSwapped(b, sel) ==
    LET parts == << DictGet(b.age_map, sel.age),
                    DictGet(b.edu_map, sel.edu),
                    DictGet(b.emp_map, sel.emp),
                    LeTransform(b.encoders["skill_alignment"], sel.skl),
                    LeTransform(b.encoders["gender"], sel.gen),
                    LeTransform(b.encoders["skill_training"], sel.trn),
                    LeTransform(b.encoders["job_seeking_status"], sel.sk) >>
        bad   == {i \in DOMAIN parts : parts[i].err # "none"}
        first == CHOOSE i \in bad : \A j \in bad : i <= j
    IN  IF bad = {}
        THEN [err |-> "none", x |-> [i \in DOMAIN parts |-> parts[i].val]]
        ELSE [err |-> parts[first].err, x |-> <<>>]

\* Lines 117-121: the seven entries of x_in, evaluated left to right; the
\* first failing lookup raises.
AssembleX(b, sel) ==
    LET parts == << DictGet(b.age_map, sel.age),
                    DictGet(b.edu_map, sel.edu),
                    DictGet(b.emp_map, sel.emp),
                    LeTransform(b.encoders["gender"], sel.gen),
                    LeTransform(b.encoders["skill_alignment"], sel.skl),
                    LeTransform(b.encoders["skill_training"], sel.trn),
                    LeTransform(b.encoders["job_seeking_status"], sel.sk) >>
        bad   == {i \in DOMAIN parts : parts[i].err # "none"}
        first == CHOOSE i \in bad : \A j \in bad : i <= j
    IN  IF bad = {}
        THEN [err |-> "none", x |-> [i \in DOMAIN parts |-> parts[i].val]]
        ELSE [err |-> parts[first].err, x |-> <<>>]

\* Lines 108-114: every selectbox starts at its first option.
DefaultSel(b) ==
    [age |-> age_keys[1], edu |-> edu_keys[1], emp |-> emp_keys[1],
     gen |-> b.encoders["gender"][1],
     skl |-> b.encoders["skill_alignment"][1],
     trn |-> b.encoders["skill_training"][1],
     sk  |-> b.encoders["job_seeking_status"][1]]

\* The ordinal selectboxes moved to "18-24", "Undergraduate" and "Employed",
\* Skills Match? to its last option, Gender to option g.
MenuSel(b, g) ==
    LET skl == b.encoders["skill_alignment"]
    IN  [DefaultSel(b) EXCEPT !.edu = edu_keys[2], !.emp = emp_keys[2],
                              !.gen = g, !.skl = skl[Len(skl)]]

NoSel == [age |-> <<>>, edu |-> <<>>, emp |-> <<>>, gen |-> <<>>,
          skl |-> <<>>, trn |-> <<>>, sk |-> <<>>]

NoScore == [num |-> 0, den |-> 0]

\* -------------------------------------------------------------------- state
VARIABLES
    csv,        \* the survey CSV: [status, rows]
    file,       \* unemployment_model.pkl: [exists, data], data the chunks on disk
    tpc,        \* position of the training script
    runs,       \* training runs started so far
    df,         \* train_model.py: df
    encoders,   \* train_model.py: encoders
    model,      \* train_model.py: model
    cache,      \* st.cache_resource entry of load_assets: [filled, value]
    lpc,        \* position of a running load_assets body
    rbuf,       \* chunks the running pickle.load has read
    rtorn,      \* the file was truncated under the running pickle.load
    sess        \* per dashboard session: position and locals of the script run

vars == <<csv, file, tpc, runs, df, encoders, model, cache, lpc, rbuf, rtorn, sess>>

trainVars == <<tpc, runs, df, encoders, model>>
loadVars == <<cache, lpc, rbuf, rtorn>>

Sessions == {1, 2}

NoFile == [exists |-> FALSE, data |-> <<>>]

FreshSession ==
    [pc |-> "idle", assets |-> None, sel |-> NoSel, x_in |-> <<>>,
     err |-> "none", prediction |-> NoScore, reruns |-> 0]

\* ------------------------------------------------------------------- inputs
BaseRow ==
    [age_group |-> <<"18-24">>, education_level |-> <<"Undergraduate">>,
     employment_status |-> <<"Employed">>, gender |-> <<"Male">>,
     skill_alignment |-> <<"Yes">>, skill_training |-> <<"No">>,
     job_seeking_status |-> <<"Active">>,
     issue_severity_perception |-> <<"Yes">>, proposed_solution |-> <<"Jobs">>]

AllNaNRow == [c \in DOMAIN BaseRow |-> NaN]

\* Cells a CSV row may hold instead of BaseRow's: other labels, labels outside
\* the static maps, padded labels, blank cells and missing cells.
CellChoices ==
    { <<"age_group", <<"35-44">> >>, <<"age_group", NaN>>,
      <<"education_level", <<"Diploma">> >>, <<"education_level", NaN>>,
      <<"employment_status", <<"Self-employed">> >>, <<"employment_status", NaN>>,
      <<"gender", <<"Female">> >>, <<"gender", <<SP, "Female", SP>> >>,
      <<"gender", NaN>>, <<"gender", <<SP>> >>,
      <<"skill_alignment", NaN>>, <<"skill_training", NaN>>,
      <<"job_seeking_status", NaN>>,
      <<"issue_severity_perception", <<"No">> >>,
      <<"issue_severity_perception", <<"Not sure">> >>,
      <<"issue_severity_perception", NaN>> }

TrainRows ==
    {BaseRow, AllNaNRow} \cup {[BaseRow EXCEPT ![cv[1]] = cv[2]] : cv \in CellChoices}

SeqsUpTo(S, n) == UNION {[1..k -> S] : k \in 0..n}

TrainCsvs ==
    {[status |-> "ok", rows |-> r] : r \in SeqsUpTo(TrainRows, MaxRows)}
        \cup {[status |-> "missing", rows |-> <<>>],
              [status |-> "unparsable", rows |-> <<>>]}

\* The two datasets the lifecycle specification trains on.
DsA == <<BaseRow, [BaseRow EXCEPT !["gender"] = <<"Female">>,
                                  !["issue_severity_perception"] = <<"No">>]>>
DsB == <<[BaseRow EXCEPT !["gender"] = <<"Other">>],
         [BaseRow EXCEPT !["skill_alignment"] = <<"No">>,
                         !["issue_severity_perception"] = <<"Maybe">>]>>

LifeCsvs ==
    {[status |-> "ok", rows |-> DsA], [status |-> "ok", rows |-> DsB],
     [status |-> "missing", rows |-> <<>>]}

\* A bundle left on disk by an earlier successful run.
OldBundle == TrainBundle(<<BaseRow>>)

\* Labels a request may carry in one field in place of the menu's first
\* option. The request surface takes its seven labels from its caller: other
\* menu options, and labels that no map and no encoder of the bundle knows.
SelChoices ==
    { <<"age", <<"25-34">> >>, <<"age", <<"35-44">> >>,
      <<"edu", <<"Diploma">> >>, <<"emp", <<"Self-employed">> >>,
      <<"gen", <<"Female">> >>, <<"gen", <<"Other">> >>,
      <<"gen", <<SP, "Female", SP>> >>,
      <<"skl", <<"No">> >>, <<"skl", <<"Maybe">> >>,
      <<"trn", <<"Yes">> >>, <<"sk", <<"Passive">> >> }

\* The selections that repeat a training row: its ordinal labels as read and
\* its categorical labels as cleaned for the encoders.
RowSel(r) ==
    [age |-> r.age_group, edu |-> r.education_level, emp |-> r.employment_status,
     gen |-> CleanCategorical(r.gender),
     skl |-> CleanCategorical(r.skill_alignment),
     trn |-> CleanCategorical(r.skill_training),
     sk  |-> CleanCategorical(r.job_seeking_status)]

RowSels(rows) ==
    LET d == DropNaAll(rows)
    IN  {RowSel(d[i]) : i \in {j \in DOMAIN d :
            \A c \in Range(ordinal_cols) : d[j][c] # NaN}}

WideSel(b) ==
    {DefaultSel(b)} \cup {[DefaultSel(b) EXCEPT ![cv[1]] = cv[2]] : cv \in SelChoices}
        \cup RowSels(csv.rows)

\* The selections the lifecycle specification sends.
LifeSel(b) ==
    {DefaultSel(b), [DefaultSel(b) EXCEPT !["gen"] = <<"Unlisted">>]}
        \cup {MenuSel(b, g) : g \in Range(b.encoders["gender"])}

\* ---------------------------------------------------------- training script
\* Mutant of LoadData: the bundle file is opened for writing at the top of the
\* script, before the CSV is read.
LoadDataOpensFirst ==
    /\ tpc = "start"
    /\ file' = [exists |-> TRUE, data |-> <<>>]
    /\ IF csv.status = "ok"
       THEN tpc' = "loaded" /\ df' = DropNaAll(csv.rows)
       ELSE IF csv.status = "missing"
       THEN tpc' = "aborted" /\ df' = df
       ELSE tpc' = "crashed" /\ df' = df
    /\ UNCHANGED <<csv, runs, encoders, model, loadVars, sess>>

\* Lines 8-14: read_csv and dropna. A missing file is caught and the script
\* exits; any other failure of read_csv is not caught and ends the script.
LoadData ==
    /\ tpc = "start"
    /\ IF csv.status = "ok"
       THEN tpc' = "loaded" /\ df' = DropNaAll(csv.rows)
       ELSE IF csv.status = "missing"
       THEN tpc' = "aborted" /\ df' = df
       ELSE tpc' = "crashed" /\ df' = df
    /\ UNCHANGED <<csv, file, runs, encoders, model, loadVars, sess>>

\* Lines 22-24.
MapOrdinals ==
    /\ tpc = "loaded"
    /\ df' = WithOrdinals(df)
    /\ tpc' = "mapped"
    /\ UNCHANGED <<csv, file, runs, encoders, model, loadVars, sess>>

\* Lines 27-28.
TargetScoring ==
    /\ tpc = "mapped"
    /\ df' = WithTarget(df)
    /\ tpc' = "scored"
    /\ UNCHANGED <<csv, file, runs, encoders, model, loadVars, sess>>

\* Lines 31-37.
EncodeCategoricals ==
    /\ tpc = "scored"
    /\ encoders' = FitEncoders(df)
    /\ df' = EncodeColumns(df, FitEncoders(df))
    /\ tpc' = "encoded"
    /\ UNCHANGED <<csv, file, runs, model, loadVars, sess>>

\* Lines 40-45. fit raises on a table without rows; nothing catches it.
FitModel ==
    /\ tpc = "encoded"
    /\ IF Len(df) = 0
       THEN tpc' = "crashed" /\ model' = model
       ELSE tpc' = "fitted" /\ model' = ModelFit(FeatureTable(df), Targets(df))
    /\ UNCHANGED <<csv, file, runs, df, encoders, loadVars, sess>>

\* Line 48: open(..., 'wb') creates the file or truncates it. A pickle.load
\* that has already read part of the old content is now reading a torn stream.
OpenBundle ==
    /\ tpc = "fitted"
    /\ file' = [exists |-> TRUE, data |-> <<>>]
    /\ tpc' = "writing"
    /\ rtorn' = (rtorn \/ (lpc = "reading" /\ rbuf # <<>>))
    /\ UNCHANGED <<csv, runs, df, encoders, model, cache, lpc, rbuf, sess>>

\* Lines 49-56: pickle.dump; the buffered writer flushes chunk after chunk.
DumpChunk ==
    /\ tpc = "writing"
    /\ Len(file.data) < PickleLen - 1
    /\ file' = [file EXCEPT !.data =
                   Append(@, Pickle(MakeBundle(model, encoders))[Len(@) + 1])]
    /\ UNCHANGED <<csv, trainVars, loadVars, sess>>

\* Line 56, leaving the with block: the rest of the stream is flushed and the
\* file closed.
CloseBundle ==
    /\ tpc = "writing"
    /\ Len(file.data) = PickleLen - 1
    /\ file' = [file EXCEPT !.data =
                   Append(@, Pickle(MakeBundle(model, encoders))[PickleLen])]
    /\ tpc' = "closed"
    /\ UNCHANGED <<csv, runs, df, encoders, model, loadVars, sess>>

\* Line 58.
PrintSuccess ==
    /\ tpc = "closed"
    /\ tpc' = "finished"
    /\ UNCHANGED <<csv, file, runs, df, encoders, model, loadVars, sess>>

\* The script's process is interrupted while the file is open for writing.
Kill ==
    /\ tpc = "writing"
    /\ tpc' = "killed"
    /\ UNCHANGED <<csv, file, runs, df, encoders, model, loadVars, sess>>

TrainEnded == tpc \in {"finished", "aborted", "crashed", "killed"}

\* The script is run again.
TrainStart ==
    /\ TrainEnded
    /\ runs < MaxRuns
    /\ runs' = runs + 1
    /\ tpc' = "start"
    /\ df' = <<>>
    /\ encoders' = <<>>
    /\ model' = NoModel
    /\ UNCHANGED <<csv, file, loadVars, sess>>

\* The survey CSV is replaced between runs.
EditCsv ==
    /\ TrainEnded
    /\ runs < MaxRuns
    /\ \E c \in LifeCsvs \ {csv} : csv' = c
    /\ UNCHANGED <<file, trainVars, loadVars, sess>>

\* ------------------------------------------------------------- load_assets
\* Mutant of Cached: load_assets without the cache decorator.
CachedNever == FALSE

\* Line 39, st.cache_resource: a call returns the cached value when there is one.
Cached == cache.filled

\* Mutant of OnLoadError: no except clause, the exception leaves load_assets.
OnLoadErrorRaises == [raised |-> TRUE, value |-> None]

\* Lines 44-45: whatever the body raises, the call returns None.
OnLoadError == [raised |-> FALSE, value |-> None]

\* The call returns v: the cache keeps it and every script run waiting in
\* load_assets goes on with it.
Deliver(v) ==
    /\ cache' = [filled |-> TRUE, value |-> v]
    /\ sess' = [s \in Sessions |->
                  IF sess[s].pc = "load"
                  THEN [sess[s] EXCEPT !.pc = "tab3", !.assets = v]
                  ELSE sess[s]]

\* The body failed.
Fail ==
    IF OnLoadError.raised
    THEN /\ sess' = [s \in Sessions |->
                       IF sess[s].pc = "load"
                       THEN [sess[s] EXCEPT !.pc = "crashed", !.err = "load"]
                       ELSE sess[s]]
         /\ cache' = cache
    ELSE Deliver(OnLoadError.value)

\* Lines 47-48 of a script run: the run reaches assets = load_assets().
ScriptRun(s) ==
    /\ sess[s].pc = "idle"
    /\ sess[s].reruns < MaxReruns
    /\ sess' = [sess EXCEPT ![s].pc = "load", ![s].reruns = @ + 1]
    /\ UNCHANGED <<csv, file, trainVars, loadVars>>

\* Line 48 with a cached value.
CacheHit(s) ==
    /\ sess[s].pc = "load"
    /\ Cached
    /\ lpc = "idle"
    /\ sess' = [sess EXCEPT ![s].pc = "tab3", ![s].assets = cache.value]
    /\ UNCHANGED <<csv, file, trainVars, loadVars>>

\* Line 42: the body runs for the waiting calls and opens the file.
LoadOpen ==
    /\ \E s \in Sessions : sess[s].pc = "load"
    /\ ~Cached
    /\ lpc = "idle"
    /\ IF file.exists
       THEN /\ lpc' = "reading"
            /\ UNCHANGED <<cache, sess>>
       ELSE /\ lpc' = "idle"
            /\ Fail
    /\ rbuf' = <<>>
    /\ rtorn' = FALSE
    /\ UNCHANGED <<csv, file, trainVars>>

\* Line 43: pickle.load reads the next chunk at its offset. Past the end of
\* the file it raises; with the STOP opcode read it returns the object. A torn
\* stream either fails to parse or parses.
LoadRead ==
    /\ lpc = "reading"
    /\ IF Len(rbuf) >= Len(file.data)
       THEN /\ lpc' = "idle"
            /\ rbuf' = <<>>
            /\ Fail
       ELSE LET got == Append(rbuf, file.data[Len(rbuf) + 1])
            IN  IF Len(got) < PickleLen
                THEN /\ lpc' = "reading"
                     /\ rbuf' = got
                     /\ UNCHANGED <<cache, sess>>
                ELSE /\ lpc' = "idle"
                     /\ rbuf' = <<>>
                     /\ \E parses \in (IF rtorn THEN BOOLEAN ELSE {TRUE}) :
                           IF parses THEN Deliver(Unpickle(got)) ELSE Fail
    /\ rtorn' = (rtorn /\ lpc' = "reading")
    /\ UNCHANGED <<csv, file, trainVars>>

\* ------------------------------------------------------- prediction tab
\* Lines 104 and 132-133: without assets the tab only reports it.
Tab3(s) ==
    /\ sess[s].pc = "tab3"
    /\ sess' = [sess EXCEPT ![s].pc =
                   IF Truthy(sess[s].assets) THEN "form" ELSE "unavailable"]
    /\ UNCHANGED <<csv, file, trainVars, loadVars>>

\* Line 116: the button is pressed with the selections sel.
Generate(s, sel) ==
    /\ sess[s].pc = "form"
    /\ sess' = [sess EXCEPT ![s].pc = "clicked", ![s].sel = sel]
    /\ UNCHANGED <<csv, file, trainVars, loadVars>>

\* Mutant of Assemble: fit_transform in place of transform for the gender
\* entry, which refits the shared encoder on the one selected label.
AssembleRefit(s) ==
    /\ sess[s].pc = "clicked"
    /\ LET old == sess[s].assets
           new == [old EXCEPT !.encoders["gender"] = <<sess[s].sel.gen>>]
           r   == AssembleX(new, sess[s].sel)
       IN  /\ sess' = [t \in Sessions |->
                         IF t = s
                         THEN [sess[t] EXCEPT
                                 !.pc = IF r.err = "none" THEN "assembled" ELSE "failed",
                                 !.err = r.err, !.x_in = r.x, !.assets = new]
                         ELSE IF sess[t].assets = old
                         THEN [sess[t] EXCEPT !.assets = new]
                         ELSE sess[t]]
           /\ cache' = [cache EXCEPT !.value = IF @ = old THEN new ELSE @]
    /\ UNCHANGED <<csv, file, trainVars, lpc, rbuf, rtorn>>

\* Lines 117-121: x_in, a local of this script run, from the bundle the run's
\* assets names (the object load_assets returned, shared by the sessions).
Assemble(s) ==
    /\ sess[s].pc = "clicked"
    /\ LET r == AssembleX(sess[s].assets, sess[s].sel)
       IN  sess' = [sess EXCEPT
                      ![s].pc = IF r.err = "none" THEN "assembled" ELSE "failed",
                      ![s].err = r.err,
                      ![s].x_in = r.x]
    /\ UNCHANGED <<csv, file, trainVars, loadVars>>

\* Lines 122-131.
Predict(s) ==
    /\ sess[s].pc = "assembled"
    /\ sess' = [sess EXCEPT
                  ![s].pc = "shown",
                  ![s].prediction = ModelPredict(sess[s].assets.model, sess[s].x_in)]
    /\ UNCHANGED <<csv, file, trainVars, loadVars>>

\* The script run is over; the session waits for the next interaction.
EndRun(s) ==
    /\ sess[s].pc \in {"form", "shown", "failed", "unavailable", "crashed"}
    /\ sess' = [sess EXCEPT ![s] = [FreshSession EXCEPT !.reruns = sess[s].reruns]]
    /\ UNCHANGED <<csv, file, trainVars, loadVars>>

\* ------------------------------------------------------------ specifications
TypeInit ==
    /\ tpc = "start"
    /\ runs = 1
    /\ df = <<>>
    /\ encoders = <<>>
    /\ model = NoModel
    /\ cache = [filled |-> FALSE, value |-> None]
    /\ lpc = "idle"
    /\ rbuf = <<>>
    /\ rtorn = FALSE
    /\ sess = [s \in Sessions |-> FreshSession]

\* Lifecycle: training runs, the bundle file and one dashboard process with
\* two sessions.
Init ==
    /\ csv = [status |-> "ok", rows |-> DsA]
    /\ file = NoFile
    /\ TypeInit

TrainStep ==
    \/ LoadData
    \/ MapOrdinals
    \/ TargetScoring
    \/ EncodeCategoricals
    \/ FitModel
    \/ OpenBundle
    \/ DumpChunk
    \/ CloseBundle
    \/ PrintSuccess

LoadStep ==
    \/ LoadOpen
    \/ LoadRead

Next ==
    \/ TrainStep
    \/ Kill
    \/ TrainStart
    \/ EditCsv
    \/ LoadStep
    \/ \E s \in Sessions :
          \/ ScriptRun(s)
          \/ CacheHit(s)
          \/ Tab3(s)
          \/ /\ sess[s].pc = "form"
             /\ \E sel \in LifeSel(sess[s].assets) : Generate(s, sel)
          \/ Assemble(s)
          \/ Predict(s)
          \/ EndRun(s)

Spec == Init /\ [][Next]_vars

\* One training run over every bounded CSV, then one session's requests
\* against the bundle that run left on disk.
InitTrain ==
    /\ csv \in TrainCsvs
    /\ file \in {NoFile, [exists |-> TRUE, data |-> Pickle(OldBundle)]}
    /\ TypeInit

NextTrain ==
    \/ TrainStep
    \/ TrainEnded /\ LoadOpen
    \/ TrainEnded /\ LoadRead
    \/ TrainEnded /\ ScriptRun(1)
    \/ TrainEnded /\ Tab3(1)
    \/ /\ TrainEnded
       /\ sess[1].pc = "form"
       /\ \E sel \in WideSel(sess[1].assets) : Generate(1, sel)
    \/ TrainEnded /\ Assemble(1)
    \/ TrainEnded /\ Predict(1)

SpecTrain == InitTrain /\ [][NextTrain]_vars

\* ------------------------------------------------------------------- claims
\* Bundles a complete training run over one of the lifecycle CSVs writes.
CompleteBundles == {TrainBundle(c.rows) : c \in {k \in LifeCsvs : k.status = "ok"}}

InRequest(s) == sess[s].pc \in {"clicked", "assembled", "failed", "shown"}

AfterLoad(s) == sess[s].pc \notin {"idle", "load", "crashed"}

\* C1: whatever load_assets returns is either None or a bundle that a
\* training run wrote completely, under every interleaving of the loader with
\* the writer's open, dump and close, interrupted writes included.
C1_LoadCompleteOrNone ==
    cache.filled => (cache.value = None \/ cache.value \in CompleteBundles)

\* C2: the bundle file changes only in the write step of a run whose CSV was
\* read and whose mapping, encoding and fit have completed, so that what is
\* written is the whole pipeline's result; a run whose CSV is missing or
\* cannot be parsed leaves the file as it found it.
C2_WriteOnlyAfterFit ==
    [][file' # file =>
          /\ csv.status = "ok"
          /\ tpc \in {"fitted", "writing"}
          /\ model.fitted
          /\ MakeBundle(model, encoders) = TrainBundle(csv.rows)]_vars

\* C2 witness: a run over a missing or unparsable CSV has ended and the bundle
\* of an earlier run is still on disk.
C2_Witness ==
    /\ csv.status # "ok"
    /\ TrainEnded
    /\ file = [exists |-> TRUE, data |-> Pickle(OldBundle)]

\* The running load_assets body is about to fail: no file, or the read offset
\* is at the end of a file that holds no complete stream.
LoadBroken ==
    \/ lpc = "idle" /\ ~file.exists
    \/ lpc = "reading" /\ Len(rbuf) >= Len(file.data)

\* C3: load_assets never raises, a failing load returns None, and a script run
\* holding None reads nothing from a bundle and predicts nothing: it only
\* reports that prediction is unavailable, and the session can run again.
C3_LoadNeverRaises ==
    /\ [](\A s \in Sessions :
            /\ sess[s].pc # "crashed"
            /\ (AfterLoad(s) /\ ~Truthy(sess[s].assets)) =>
                  /\ sess[s].pc \in {"tab3", "unavailable"}
                  /\ sess[s].sel = NoSel
                  /\ sess[s].x_in = <<>>
                  /\ sess[s].prediction = NoScore
                  /\ sess[s].pc = "unavailable" => ENABLED EndRun(s))
    /\ [][(LoadStep /\ LoadBroken) =>
             /\ cache' = [filled |-> TRUE, value |-> None]
             /\ \A s \in Sessions :
                   sess[s].pc = "load" =>
                      sess'[s].pc = "tab3" /\ sess'[s].assets = None]_vars

\* C3 witness: the file on disk is a truncated stream left by an interrupted
\* write, load_assets returned None and a session shows the unavailable notice.
C3_Witness ==
    /\ file.exists
    /\ Len(file.data) < PickleLen
    /\ tpc = "killed"
    /\ cache = [filled |-> TRUE, value |-> None]
    /\ \E s \in Sessions : sess[s].pc = "unavailable"

HasUnseen(s) ==
    LET a == sess[s].assets
        sel == sess[s].sel
    IN  \/ sel.gen \notin Range(a.encoders["gender"])
        \/ sel.skl \notin Range(a.encoders["skill_alignment"])
        \/ sel.trn \notin Range(a.encoders["skill_training"])
        \/ sel.sk \notin Range(a.encoders["job_seeking_status"])

\* C5: a request with a categorical label outside the fitted label set ends in
\* an error, with no vector and no prediction, and the loaded bundle is still
\* the bundle that was read from disk.
C5_UnseenLabelFails ==
    \A s \in Sessions :
       (sess[s].pc \in {"assembled", "failed", "shown"} /\ HasUnseen(s)) =>
          /\ sess[s].pc = "failed"
          /\ sess[s].err \in {"ValueError", "KeyError"}
          /\ sess[s].x_in = <<>>
          /\ sess[s].prediction = NoScore
          /\ sess[s].assets = cache.value
          /\ cache.value = Unpickle(file.data)

\* C5 witness: requests failed with ValueError on an unseen label of each of
\* the categorical fields are reachable; this one is the gender field's.
C5_Witness ==
    /\ sess[1].pc = "failed"
    /\ sess[1].err = "ValueError"
    /\ sess[1].sel.gen \notin Range(sess[1].assets.encoders["gender"])
    /\ sess[1].sel.gen = <<SP, "Female", SP>>

\* C6: once the categorical columns are encoded, no text cell of the frame is
\* missing or empty and no encoder's classes_ holds the text of a missing cell
\* or an empty label.
C6_NoMissingAfterCleaning ==
    tpc \in {"encoded", "fitted", "writing", "closed", "finished"} =>
       /\ \A c \in Range(categorical_cols) :
             /\ <<"nan">> \notin Range(encoders[c])
             /\ <<>> \notin Range(encoders[c])
       /\ \A i \in DOMAIN df : \A c \in Range(ordinal_cols) : df[i][c] # NaN

\* The selection that feeds the entry of x_in named by a feature.
SelOf ==
    [age_numeric |-> "age", edu_numeric |-> "edu", emp_numeric |-> "emp",
     gender |-> "gen", skill_alignment |-> "skl", skill_training |-> "trn",
     job_seeking_status |-> "sk"]

\* The static map a feature's ordinal column is derived with.
MapOf(b) ==
    [age_numeric |-> b.age_map, edu_numeric |-> b.edu_map, emp_numeric |-> b.emp_map]

\* C7: an assembled vector has seven entries; entry k is the code of the
\* selection for the k-th name of the bundle's feature_names, through the map
\* or the encoder of that same field; feature_names is the order of the
\* columns the model was fit on, so the vector for the selections of a
\* training row is that row's vector in the model's training table.
C7_VectorOrder ==
    \A s \in Sessions :
       sess[s].pc \in {"assembled", "shown"} =>
          LET a == sess[s].assets
              x == sess[s].x_in
              names == a.feature_names
          IN  /\ Len(x) = 7
              /\ Len(names) = 7
              /\ names = <<"age_numeric", "edu_numeric", "emp_numeric", "gender",
                           "skill_alignment", "skill_training", "job_seeking_status">>
              /\ \A k \in 1..Len(names) :
                    LET label == sess[s].sel[SelOf[names[k]]]
                    IN  IF names[k] \in DOMAIN a.encoders
                        THEN x[k] = IndexOf(a.encoders[names[k]], label) - 1
                        ELSE x[k] = MapOf(a)[names[k]][label]
              /\ tpc = "finished" =>
                    \A i \in DOMAIN df :
                       sess[s].sel = RowSel(DropNaAll(csv.rows)[i]) => x = a.model.X[i]

\* C7 witness: a vector assembled for the selections of a training row whose
\* gender and skill_alignment codes differ.
C7_Witness ==
    /\ tpc = "finished"
    /\ sess[1].pc = "shown"
    /\ sess[1].sel \in RowSels(csv.rows)
    /\ sess[1].x_in[4] # sess[1].x_in[5]

\* What a request with selections sel returns when it runs alone against b.
Alone(b, sel) ==
    LET r == AssembleX(b, sel)
    IN  IF r.err = "none"
        THEN [err |-> "none", prediction |-> ModelPredict(b.model, r.x)]
        ELSE [err |-> r.err, prediction |-> NoScore]

\* C8: with two sessions' requests interleaved, each request ends with what it
\* would return alone against the loaded bundle, and a step of a request
\* changes neither the loaded bundle nor the other session.
C8_RequestsIsolated ==
    /\ [](\A s \in Sessions :
            InRequest(s) =>
               /\ sess[s].assets = cache.value
               /\ sess[s].pc = "shown" =>
                     /\ Alone(cache.value, sess[s].sel).err = "none"
                     /\ sess[s].prediction = Alone(cache.value, sess[s].sel).prediction
               /\ sess[s].pc = "failed" =>
                     /\ sess[s].err # "none"
                     /\ sess[s].err = Alone(cache.value, sess[s].sel).err)
    /\ [][\A s \in Sessions :
             (InRequest(s) /\ sess'[s] # sess[s]) =>
                /\ cache' = cache
                /\ \A t \in Sessions \ {s} : sess'[t] = sess[t]]_vars

\* C8 witness: both sessions have finished requests with different selections
\* and different scores against the same bundle.
C8_Witness ==
    /\ sess[1].pc = "shown"
    /\ sess[2].pc = "shown"
    /\ sess[1].sel # sess[2].sel
    /\ sess[1].prediction # sess[2].prediction

C10_LoadedOnce ==
    /\ [](cache.filled =>
            /\ lpc = "idle"
            /\ \A s \in Sessions : AfterLoad(s) => sess[s].assets = cache.value)
    /\ [][cache.filled => (cache' = cache /\ lpc' = "idle")]_vars

\* C10 witness: a session's second script run holds the value cached by the
\* first load although a training run has since written a different, complete
\* bundle to the file.
C10_Witness ==
    /\ cache.filled
    /\ file.exists
    /\ Len(file.data) = PickleLen
    /\ tpc = "finished"
    /\ Unpickle(file.data) # cache.value
    /\ \E s \in Sessions :
          /\ sess[s].reruns = 2
          /\ sess[s].pc \in {"form", "unavailable"}
          /\ sess[s].assets = cache.value

====
